---- MODULE Spec2Model ----
(* State machine of atomist/sdm-pack-issue: the review listeners of        *)
(* lib/review/issueManagingReviewListeners.ts reconciling GitHub issues     *)
(* with review comments, the issue client of lib/review/issue.ts and the    *)
(* branch-deletion listener of lib/event/closeCodeInspectionIssues.ts.      *)
(* Strings that the code concatenates or searches (issue bodies, tags) are  *)
(* sequences of string tokens, so that includes() is a real search.         *)
EXTENDS Integers, Sequences, FiniteSets, TLC

VARIABLES issues, calls, events, thrown, returned, project, deploy, runs, last

vars == <<issues, calls, events, thrown, returned, project, deploy, runs, last>>

(* ------------------------------------------------------------------ *)
(* Bounds and the finite input universe                                 *)
(* ------------------------------------------------------------------ *)

\* longest list of review comments one push delivers
MaxComments == 2

\* the latest request of an invocation that is made to fail
MaxFaultAt == 4

\* bodySizeLimit of truncateBodyIfTooLarge, 65536 - 1000 in the code, scaled
\* down; it stays above the length of the truncation marker and of the
\* comments the handlers post, as the code's limit does
BodySizeLimit == 22

\* by how much the bodies passed to truncateBodyIfTooLarge exceed the limit
MaxOver == 2

\* longest list of comments passed to a body formatter called on its own
MaxFormatted == 3

\* ri.push.repo.defaultBranch of the one repository modelled
DefaultBranch == "master"

Branches == {"master", "feature"}

\* ri.push.after.sha / ri.id.sha
Shas == {"sha1"}

\* the source a listener is registered with, as a sequence of characters
Sources == {<<"T">>, <<"e">>}

Owner == "o"

RepoName == "r"

\* review comments a reviewer can deliver (every one has a sourceLocation,
\* which the formatters of this version dereference unconditionally)
K1 == [category |-> "c1", subcategory |-> "s1", severity |-> "error", detail |-> "d1",
       sourceLocation |-> [path |-> "a.ts", lineFrom1 |-> 3]]

K2 == [category |-> "c1", subcategory |-> "", severity |-> "warn", detail |-> "d2",
       sourceLocation |-> [path |-> "b.ts", lineFrom1 |-> 0]]

K3 == [category |-> "c2", subcategory |-> "s2", severity |-> "info", detail |-> "d3",
       sourceLocation |-> [path |-> "c.ts", lineFrom1 |-> 7]]

\* a second comment of the category and subcategory of K1
K4 == [category |-> "c1", subcategory |-> "s1", severity |-> "warn", detail |-> "d4",
       sourceLocation |-> [path |-> "d.ts", lineFrom1 |-> 9]]

CommentPool == {K1, K2, K3}

Range(s) == {s[i] : i \in DOMAIN s}

\* the comment lists of a review: no comment twice, at most MaxComments
CommentLists ==
    UNION {{s \in [1..n -> CommentPool] : \A i, j \in 1..n : i # j => s[i] # s[j]}
           : n \in 0..MaxComments}

\* the reviews delivered where all three listeners are registered
ListenerLists == {s \in CommentLists : Range(s) \subseteq {K1}}

Pushes == [branch : Branches, sha : Shas]

(* ------------------------------------------------------------------ *)
(* String helpers                                                       *)
(* ------------------------------------------------------------------ *)

\* String.prototype.toLowerCase on the characters used
LowerChar(ch) == CASE ch = "T" -> "t" [] ch = "E" -> "e" [] OTHER -> ch

toLowerCase(s) == [i \in DOMAIN s |-> LowerChar(s[i])]

\* String.prototype.includes
Includes(s, t) == \E i \in 0..(Len(s) - Len(t)) : SubSeq(s, i + 1, i + Len(t)) = t

\* String.prototype.endsWith
EndsWith(s, t) == Len(t) <= Len(s) /\ SubSeq(s, Len(s) - Len(t) + 1, Len(s)) = t

\* the default string order of Array.prototype.sort on the names used
StrRank(s) ==
    CASE s = "" -> 0 [] s = "c1" -> 1 [] s = "c2" -> 2 [] s = "n/a" -> 3
      [] s = "s1" -> 4 [] s = "s2" -> 5 [] OTHER -> 6

RECURSIVE Flatten(_)
Flatten(ss) == IF ss = <<>> THEN <<>> ELSE Head(ss) \o Flatten(Tail(ss))

\* Array.prototype.join
RECURSIVE Join(_, _)
Join(ss, sep) ==
    IF ss = <<>> THEN <<>>
    ELSE IF Len(ss) = 1 THEN Head(ss)
    ELSE Head(ss) \o sep \o Join(Tail(ss), sep)

\* _.uniq: first occurrences, in order
RECURSIVE Uniq(_)
Uniq(s) ==
    IF s = <<>> THEN <<>>
    ELSE LET front == Uniq(SubSeq(s, 1, Len(s) - 1))
         IN IF s[Len(s)] \in Range(front) THEN front ELSE Append(front, s[Len(s)])

\* Array.prototype.sort() of distinct names
RECURSIVE SortNames(_)
SortNames(s) ==
    IF s = <<>> THEN <<>>
    ELSE LET m == CHOOSE x \in Range(s) : \A y \in Range(s) : StrRank(x) <= StrRank(y)
         IN <<m>> \o SortNames(SelectSeq(s, LAMBDA x : x # m))

\* comments.map(c => c.category)
categoriesOf(comments) == [i \in DOMAIN comments |-> comments[i].category]

\* comments.map(c => c.subcategory || "n/a")
subcategoriesOf(comments) ==
    [i \in DOMAIN comments |->
        IF comments[i].subcategory # "" THEN comments[i].subcategory ELSE "n/a"]

(* ------------------------------------------------------------------ *)
(* GitHub as seen through its REST API                                  *)
(* ------------------------------------------------------------------ *)

\* an issue as the API returns it; issues is the repository's issue list,
\* issue number n at index n
IssueUrl(n) == <<"https://api.github.com/repos", "/", Owner, "/", RepoName, "/issues/", ToString(n)>>

\* the /${rr.owner}/${rr.repo}/issues/ test of the search filters
UrlInRepo(i) == Includes(i.url, <<"/", Owner, "/", RepoName, "/issues/">>)

\* a request or a search as recorded in calls
Call(op, number, title, body, state, hasLabels, labels, found) ==
    [op |-> op, number |-> number, title |-> title, body |-> body, state |-> state,
     hasLabels |-> hasLabels, labels |-> labels, found |-> found]

Numbers(is) == [i \in DOMAIN is |-> is[i].number]

\* GET /search/issues for a text, with the numbers of the issues the caller's
\* filter let pass
SearchCall(text, found) == Call("search", 0, <<>>, text, "", FALSE, <<>>, found)

\* POST /repos/{owner}/{repo}/issues: a new open issue with the next number
ghCreate(iss, req) ==
    Append(iss, [number |-> Len(iss) + 1, title |-> req.title, body |-> req.body,
                 state |-> "open",
                 labels |-> IF req.hasLabels THEN req.labels ELSE <<>>,
                 url |-> IssueUrl(Len(iss) + 1)])

\* PATCH /repos/{owner}/{repo}/issues/{number}: the fields sent replace the stored ones
\* (a label named twice is stored once)
ghPatch(iss, n, req) ==
    [iss EXCEPT ![n].state = req.state, ![n].body = req.body,
                ![n].labels = IF req.hasLabels THEN Uniq(req.labels) ELSE @]

\* a request fails with a response of non-2xx status, or on the network, with
\* no response at all
FaultKinds == {"status", "network"}

\* the handler's requests all succeed
NoFault == [at |-> 0, kind |-> "none"]

\* the at-th request of a handler invocation fails
Faults == {NoFault} \cup [at : 1..MaxFaultAt, kind : FaultKinds]

\* the error axios rejects the request's promise with; err.response is set
\* only when the server answered
AxiosError(kind) ==
    [name |-> "Error", message |-> <<"Request failed">>, hasResponse |-> kind = "status"]

\* the request about to be made is the one that fails
Failing(st) == Len(st.calls) + 1 = st.fault.at

\* an await to be executed: nothing once an error has been thrown, the request
\* recorded and err thrown if the request fails, else the state done
Await(st, call, done, err) ==
    IF st.thrown # <<>> THEN st
    ELSE IF Failing(st) THEN [st EXCEPT !.calls = Append(@, call), !.thrown = <<err>>]
    ELSE done

\* the state a handler invocation starts in
Entry(iss, fault) ==
    [issues |-> iss, calls |-> <<>>, known |-> <<>>, fault |-> fault, thrown |-> <<>>]

\* openFirst ordering by number only, open or closed alike
openFirstMutByNumber(a, b) == b.number - a.number

\* openFirst: open before closed, then the higher number first
openFirst(a, b) ==
    IF a.state = "open" /\ b.state = "closed" THEN -1
    ELSE IF b.state = "open" /\ a.state = "closed" THEN 1
    ELSE b.number - a.number

\* Array.prototype.sort(openFirst) of issues with distinct numbers
RECURSIVE SortOpenFirst(_)
SortOpenFirst(is) ==
    IF is = <<>> THEN <<>>
    ELSE LET m == CHOOSE x \in Range(is) : \A y \in Range(is) : x = y \/ openFirst(x, y) < 0
         IN <<m>> \o SortOpenFirst(SelectSeq(is, LAMBDA x : x # m))

\* element [0] of a list, <<>> standing for undefined
First(is) == IF is = <<>> THEN <<>> ELSE <<is[1]>>

(* ------------------------------------------------------------------ *)
(* lib/review/issueManagingReviewListeners.ts                           *)
(* ------------------------------------------------------------------ *)

\* createTag(source): the one-parameter function of this file
createTag(tag) == <<"[atomist:code-inspection=">> \o toLowerCase(tag) \o <<"]">>

\* deepLink(grr, sourceLocation) of the automation client: a link into the
\* repository at the commit of the repo ref
deepLink(sha, loc) ==
    <<"https://github.com/", Owner, "/", RepoName, "/blob/", sha, "/", loc.path>>
    \o (IF loc.lineFrom1 # 0 THEN <<"#L", ToString(loc.lineFrom1)>> ELSE <<>>)

\* the list item both body formatters emit for one comment (the backquotes
\* around the path written as ')
CommentLine(c, sha) ==
    <<"- '", c.sourceLocation.path>>
    \o (IF c.sourceLocation.lineFrom1 # 0 THEN <<":", ToString(c.sourceLocation.lineFrom1)>> ELSE <<>>)
    \o <<"': [", c.detail, "](">> \o deepLink(sha, c.sourceLocation) \o <<")\n">>

\* .map(c => <list item>) over the comments of one heading
CommentLines(comments, sha) == [i \in DOMAIN comments |-> CommentLine(comments[i], sha)]

CategorySortingBodyFormatter(comments, sha) ==
    LET uniqueCategories == SortNames(Uniq(categoriesOf(comments)))
        Block(category) ==
            <<"## ", category, "\n">>
            \o Join(CommentLines(SelectSeq(comments, LAMBDA c : c.category = category),
                                 sha), <<"\n">>)
    IN Flatten([k \in DOMAIN uniqueCategories |-> Block(uniqueCategories[k])])

SubCategorySortingBodyFormatter(comments, sha) ==
    LET uniqueCategories == SortNames(Uniq(subcategoriesOf(comments)))
        Block(category) ==
            <<"## ", category, "\n">>
            \o Join(CommentLines(SelectSeq(comments, LAMBDA c : c.subcategory = category),
                                 sha), <<"\n">>)
    IN Flatten([k \in DOMAIN uniqueCategories |-> Block(uniqueCategories[k])])

\* the keys of _.groupBy(comments, "category"), in order of first appearance
GroupKeys(comments) == Uniq(categoriesOf(comments))

CategoryTitle(category) == <<"Code Inspection: ", category>>

\* listener-local findIssue: the best match with precisely this title
localFindIssueMutOpenOnly(iss, title) ==
    First(SortOpenFirst(SelectSeq(iss,
        LAMBDA i : i.title = title /\ i.state = "open" /\ UrlInRepo(i))))

localFindIssue(iss, title) ==
    First(SortOpenFirst(SelectSeq(iss, LAMBDA i : i.title = title /\ UrlInRepo(i))))

\* findIssues returning every issue of the repository, with or without the text
localFindIssuesMutAll(iss, body) == SelectSeq(iss, LAMBDA i : UrlInRepo(i))

\* listener-local findIssues: every issue whose body contains the text
localFindIssues(iss, body) ==
    SelectSeq(iss, LAMBDA i : Includes(i.body, body) /\ UrlInRepo(i))

\* listener-local createIssue: posts the issue as given (title and body); a
\* rejection of the post is not caught
localCreateIssue(st, issue) ==
    LET req == [title |-> issue.title, body |-> issue.body, hasLabels |-> FALSE,
                labels |-> <<>>]
        call == Call("create", Len(st.issues) + 1, issue.title, issue.body, "", FALSE,
                     <<>>, <<>>)
    IN Await(st, call,
             [st EXCEPT !.issues = ghCreate(@, req), !.calls = Append(@, call)],
             AxiosError(st.fault.kind))

\* the catch of the listener-local updateIssue: it logs err.response.data and
\* throws err; with no response the read of .data of undefined throws instead
localUpdateIssueCatch(err) ==
    IF err.hasResponse THEN err
    ELSE [name |-> "TypeError",
          message |-> <<"Cannot read property 'data' of undefined">>,
          hasResponse |-> FALSE]

\* listener-local updateIssue: patches state and body only
localUpdateIssue(st, issue) ==
    LET req == [state |-> issue.state, body |-> issue.body, hasLabels |-> FALSE,
                labels |-> <<>>]
        call == Call("update", issue.number, <<>>, issue.body, issue.state, FALSE,
                     <<>>, <<>>)
    IN Await(st, call,
             [st EXCEPT !.issues = ghPatch(@, issue.number, req), !.calls = Append(@, call)],
             localUpdateIssueCatch(AxiosError(st.fault.kind)))

OnDefaultBranchMutAny(push) == TRUE

\* ri.push.branch !== ri.push.repo.defaultBranch returns early
OnDefaultBranch(push) == push.branch = DefaultBranch

WithTagMutTruncated(formatted, tag) == formatted \o <<"\n\n">> \o SubSeq(tag, 1, Len(tag) - 1)

\* ${bodyFormatter(relevantComments, ri.id)}\n\n${tag}
WithTag(formatted, tag) == formatted \o <<"\n\n">> \o tag

BodyChangedMutAlways(body, existingIssue) == TRUE

\* body !== existingIssue.body
BodyChanged(body, existingIssue) == body # existingIssue.body

ReopenedMutKeepState(existingIssue, body) == [existingIssue EXCEPT !.body = body]

\* { ...existingIssue, state: "open", body }
Reopened(existingIssue, body) == [existingIssue EXCEPT !.state = "open", !.body = body]

\* the loop over the categories of singleIssuePerCategoryManagingReviewListener;
\* st.known is knownIssues
RECURSIVE ReconcileCategories(_, _, _, _, _)
ReconcileCategories(cats, relevant, tag, push, st) ==
    IF cats = <<>> THEN st
    ELSE
      LET category == Head(cats)
          relevantComments == SelectSeq(relevant, LAMBDA c : c.category = category)
          title == CategoryTitle(category)
          existingIssue == localFindIssue(st.issues, title)
          st1 == Await(st, SearchCall(title, <<>>),
                       [st EXCEPT
                          !.calls = Append(@, SearchCall(title, Numbers(existingIssue))),
                          !.known = SelectSeq(@, LAMBDA i : i.title # title)],
                       AxiosError(st.fault.kind))
          body == WithTag(SubCategorySortingBodyFormatter(relevantComments, push.sha), tag)
          st2 == IF existingIssue = <<>>
                 THEN localCreateIssue(st1, [title |-> title, body |-> body])
                 ELSE IF BodyChanged(body, existingIssue[1])
                      THEN localUpdateIssue(st1, Reopened(existingIssue[1], body))
                      ELSE st1
      IN ReconcileCategories(Tail(cats), relevant, tag, push, st2)

\* "Close the remaining issues"
RECURSIVE CloseRemaining(_, _)
CloseRemaining(known, st) ==
    IF known = <<>> THEN st
    ELSE CloseRemaining(Tail(known),
                        localUpdateIssue(st, [Head(known) EXCEPT !.state = "closed"]))

\* the default commentFilter: () => true
commentFilter(c) == TRUE

\* one invocation of the listener singleIssuePerCategoryManaging(source) registers
perCategoryRun(iss, source, push, comments, fault) ==
    IF ~OnDefaultBranch(push) THEN Entry(iss, fault)
    ELSE
      LET relevant == SelectSeq(comments, commentFilter)
          tag == createTag(source)
          knownIssues == localFindIssues(iss, tag)
          st0 == Await(Entry(iss, fault), SearchCall(tag, <<>>),
                       [Entry(iss, fault) EXCEPT
                          !.calls = <<SearchCall(tag, Numbers(knownIssues))>>,
                          !.known = knownIssues],
                       AxiosError(fault.kind))
          st1 == ReconcileCategories(GroupKeys(relevant), relevant, tag, push, st0)
      IN CloseRemaining(st1.known, st1)

\* who(push): the pushes modelled carry no chat identity and no committer token
who(push) == "someone"

\* linkToSha(id): slack.url(id.url + "/tree/" + id.sha, id.sha.substr(0, 7))
linkToSha(sha) == <<"<https://github.com/", Owner, "/", RepoName, "/tree/", sha, "|", sha, ">">>

\* the title singleIssueManagingReviewListener is registered with
SingleTitle == <<"Review problems">>

\* one invocation of singleIssueManagingReviewListener(() => true, SingleTitle,
\* CategorySortingBodyFormatter)
singleIssueRun(iss, push, comments) ==
    IF ~OnDefaultBranch(push) THEN Entry(iss, NoFault)
    ELSE
      LET relevantComments == SelectSeq(comments, commentFilter)
          existingIssue == localFindIssue(iss, SingleTitle)
          st0 == [Entry(iss, NoFault) EXCEPT
                    !.calls = <<SearchCall(SingleTitle, Numbers(existingIssue))>>]
          congrats == <<"The last review problem was fixed by ", who(push),
                        " when they pushed ">> \o linkToSha(push.sha)
          body == CategorySortingBodyFormatter(relevantComments, push.sha)
      IN IF relevantComments = <<>>
         THEN IF existingIssue # <<>>
              THEN localUpdateIssue(st0, [existingIssue[1] EXCEPT !.state = "closed",
                                                                  !.body = congrats])
              ELSE st0
         ELSE IF existingIssue = <<>>
              THEN localCreateIssue(st0, [title |-> SingleTitle, body |-> body])
              ELSE IF BodyChanged(body, existingIssue[1])
                   THEN localUpdateIssue(st0, Reopened(existingIssue[1], body))
                   ELSE st0

\* the loop over the comments of multiIssueManagingReviewListener(() => true,
\* bodyFormatter), the body of an issue being the list item of its comment
RECURSIVE MultiIssueComments(_, _, _)
MultiIssueComments(relevantComments, push, st) ==
    IF relevantComments = <<>> THEN st
    ELSE
      LET comment == Head(relevantComments)
          title == <<comment.detail>>
          existingIssue == localFindIssue(st.issues, title)
          st1 == [st EXCEPT !.calls = Append(@, SearchCall(title, Numbers(existingIssue)))]
          body == CommentLine(comment, push.sha)
          st2 == IF existingIssue = <<>>
                 THEN localCreateIssue(st1, [title |-> title, body |-> body])
                 ELSE IF BodyChanged(body, existingIssue[1])
                      THEN localUpdateIssue(st1, Reopened(existingIssue[1], body))
                      ELSE st1
      IN MultiIssueComments(Tail(relevantComments), push, st2)

multiIssueRun(iss, push, comments) ==
    IF ~OnDefaultBranch(push) THEN Entry(iss, NoFault)
    ELSE MultiIssueComments(SelectSeq(comments, commentFilter), push, Entry(iss, NoFault))

(* ------------------------------------------------------------------ *)
(* lib/review/issue.ts: the issue client                                *)
(* ------------------------------------------------------------------ *)

CodeInspectionIssueLabel == "code-inspection"

\* addCodeInspectionLabel: labels || [], then the label unless included
addCodeInspectionLabel(issue) ==
    LET labels == IF issue.hasLabels THEN issue.labels ELSE <<>>
    IN [issue EXCEPT !.hasLabels = TRUE,
                     !.labels = IF CodeInspectionIssueLabel \in Range(labels) THEN labels
                                ELSE Append(labels, CodeInspectionIssueLabel)]

\* the catch blocks of the issue client: e.message = prefix + e.message; throw e
Rethrown(prefix, e) == [e EXCEPT !.message = prefix \o @]

\* updateIssue: patches state and body, with the code-inspection label
updateIssue(st, issue) ==
    LET safeIssue == [state |-> issue.state, body |-> issue.body, hasLabels |-> FALSE,
                      labels |-> <<>>]
        req == addCodeInspectionLabel(safeIssue)
        call == Call("update", issue.number, <<>>, req.body, req.state, req.hasLabels,
                     req.labels, <<>>)
    IN Await(st, call,
             [st EXCEPT !.issues = ghPatch(@, issue.number, req), !.calls = Append(@, call)],
             Rethrown(<<"Failed to update issue ", ToString(issue.number), ": ">>,
                      AxiosError(st.fault.kind)))

\* the characters the dot of a regular expression does not match
LineTerminators == {"\n", "\r"}

\* "\n_Body truncated..._\n", character by character; "..." stands for the one
\* character U+2026
TruncationMarker ==
    <<"\n", "_", "B", "o", "d", "y", " ", "t", "r", "u", "n", "c", "a", "t", "e", "d",
      "...", "_", "\n">>

\* s.replace(/\n.*$/, marker): the leftmost line feed after which no line
\* terminator follows up to the end of s is replaced, with all that follows
\* it, by the marker; s is returned as it is when there is no such line feed
ReplaceLastLine(s, marker) ==
    LET starts == {i \in DOMAIN s :
                     /\ s[i] = "\n"
                     /\ \A j \in (i + 1)..Len(s) : s[j] \notin LineTerminators}
    IN IF starts = {} THEN s
       ELSE LET i == CHOOSE x \in starts : \A y \in starts : x <= y
            IN SubSeq(s, 1, i - 1) \o marker

\* truncateBodyIfTooLarge
truncateBodyIfTooLarge(body) ==
    IF Len(body) < BodySizeLimit THEN body
    ELSE ReplaceLastLine(SubSeq(body, 1, BodySizeLimit), TruncationMarker)

\* createComment that posts nothing
createCommentMutNone(st, issue, comment) == st

\* createComment: posts the comment text, truncated if too large
createComment(st, issue, comment) ==
    LET call == Call("comment", issue.number, <<>>, truncateBodyIfTooLarge(comment), "",
                     FALSE, <<>>, <<>>)
    IN Await(st, call, [st EXCEPT !.calls = Append(@, call)],
             Rethrown(<<"Failed to create issue: ">>, AxiosError(st.fault.kind)))

\* findIssue with the caller's filter (a predicate on the returned issues, given
\* as a function to BOOLEAN): the best match, open first
findIssue(iss, title, filter) ==
    First(SortOpenFirst(SelectSeq(iss, LAMBDA i : filter[i])))

(* ------------------------------------------------------------------ *)
(* lib/event/closeCodeInspectionIssues.ts                               *)
(* ------------------------------------------------------------------ *)

\* codeLine of slack-messages
codeLine(text) == <<"'", text, "'">>

\* the loop over the configured sources; createTag(source, branch) reaches the
\* one-parameter createTag, which receives the source only
RECURSIVE CloseForSources(_, _, _)
CloseForSources(sources, branch, st) ==
    IF sources = <<>> THEN st
    ELSE
      LET source == Head(sources)
          tag == createTag(source)
          issue == findIssue(st.issues, tag,
                            [i \in Range(st.issues) |-> Includes(i.body, tag)])
          st1 == Await(st, SearchCall(tag, <<>>),
                       [st EXCEPT !.calls = Append(@, SearchCall(tag, Numbers(issue)))],
                       Rethrown(<<"Failed to find issue: ">>, AxiosError(st.fault.kind)))
          st2 == IF issue # <<>> /\ issue[1].state = "open"
                 THEN LET closed == [issue[1] EXCEPT !.state = "closed"]
                      IN updateIssue(
                           createComment(st1, closed,
                               <<"Issue closed because branch ">> \o codeLine(branch)
                               \o <<" was deleted">>),
                           closed)
                 ELSE st1
      IN CloseForSources(Tail(sources), branch, st2)

\* the sources closeCodeInspectionIssues can be configured with
SourceLists == {<<>>} \cup {<<s>> : s \in Sources}
               \cup {<<s, t>> : <<s, t>> \in {p \in Sources \X Sources : p[1] # p[2]}}

(* ------------------------------------------------------------------ *)
(* raiseIssueLinkEvent                                                  *)
(* ------------------------------------------------------------------ *)

\* the CommitIssueRelationship payload for an issue and a push
raiseIssueLinkEvent(number, push) ==
    [type |-> "references",
     commit |-> [sha |-> push.sha, owner |-> Owner, repo |-> RepoName],
     issue |-> [name |-> ToString(number), owner |-> Owner, repo |-> RepoName]]

(* ------------------------------------------------------------------ *)
(* lib/review/legacyFiltering.ts: the legacy baseline                   *)
(* ------------------------------------------------------------------ *)

\* the names of the reviewers registered with the inspect goal, in order
Registrations == <<"r1", "r2">>

\* comments the wrapped reviewers return: L2 differs from L1 in the detail
\* only, L3 in the offset of the location, L4 in the line of the location only
L1 == [category |-> "c1", subcategory |-> "s1", detail |-> "d1",
       sourceLocation |-> [path |-> "a.ts", offset |-> 10, lineFrom1 |-> 3]]

L2 == [L1 EXCEPT !.detail = "d2"]

L3 == [L1 EXCEPT !.sourceLocation.offset = 20]

L4 == [L1 EXCEPT !.sourceLocation.lineFrom1 = 4]

LegacyPool == {L1, L2, L3, L4}

\* an undefined sourceLocation
NoLocation == [path |-> "", offset |-> -1, lineFrom1 |-> -1]

\* L1 without a sourceLocation, and L1 without a subcategory
L5 == [L1 EXCEPT !.sourceLocation = NoLocation]

L6 == [L1 EXCEPT !.subcategory = ""]

\* comments the reviewers return where each has a baseline file of its own
ReviewerPool == {L1, L3, L4, L5, L6}

\* the comments of one ProjectReview drawn from a pool: none, one or two
\* different ones
ReviewsOf(pool) ==
    {<<>>} \cup {<<a>> : a \in pool}
    \cup {<<p[1], p[2]>> : p \in {q \in pool \X pool : q[1] # q[2]}}

ReviewerReviews == ReviewsOf(ReviewerPool)

\* the comments of one ProjectReview: none, one or two different ones
Reviews ==
    {<<>>} \cup {<<a>> : a \in LegacyPool}
    \cup {<<p[1], p[2]>> : p \in {q \in LegacyPool \X LegacyPool : q[1] # q[2]}}

\* the baseline file of this version, one for the project
LegacyFile == <<".atomist/legacyIssues.json">>

\* the baseline file of a reviewer, in the version that keeps one per reviewer
legacyFileNameFor(rr) == <<".atomist/legacyIssues_", rr, ".json">>

FileNames == {LegacyFile} \cup {legacyFileNameFor(Registrations[k]) : k \in DOMAIN Registrations}

\* a project without baseline files
NoFiles == [f \in FileNames |-> <<>>]

\* JSON.stringify gives an object as its members that are defined, in order,
\* here pairs of key and value; JSON.parse gives the object back

\* the member of a parsed object, "" standing for undefined
Member(json, key) ==
    IF \E i \in DOMAIN json : json[i][1] = key
    THEN json[CHOOSE i \in DOMAIN json : json[i][1] = key][2]
    ELSE ""

stringifyLocation(loc) ==
    <<<<"path", loc.path>>, <<"offset", loc.offset>>, <<"lineFrom1", loc.lineFrom1>>>>

parseLocation(json) ==
    [path |-> Member(json, "path"), offset |-> Member(json, "offset"),
     lineFrom1 |-> Member(json, "lineFrom1")]

stringifyComment(c) ==
    <<<<"category", c.category>>>>
    \o (IF c.subcategory # "" THEN <<<<"subcategory", c.subcategory>>>> ELSE <<>>)
    \o <<<<"detail", c.detail>>>>
    \o (IF c.sourceLocation # NoLocation
        THEN <<<<"sourceLocation", stringifyLocation(c.sourceLocation)>>>> ELSE <<>>)

parseComment(json) ==
    [category |-> Member(json, "category"), subcategory |-> Member(json, "subcategory"),
     detail |-> Member(json, "detail"),
     sourceLocation |-> IF \E i \in DOMAIN json : json[i][1] = "sourceLocation"
                        THEN parseLocation(Member(json, "sourceLocation"))
                        ELSE NoLocation]

\* JSON.stringify and JSON.parse of an array of comments
stringifyComments(comments) == [i \in DOMAIN comments |-> stringifyComment(comments[i])]

parseComments(json) == [i \in DOMAIN json |-> parseComment(json[i])]

\* JSON.stringify and JSON.parse of a ProjectReview
stringifyReview(review) ==
    <<<<"repoId", review.repoId>>, <<"comments", stringifyComments(review.comments)>>>>

parseReview(json) ==
    [repoId |-> Member(json, "repoId"), comments |-> parseComments(Member(json, "comments"))]

\* an operation on the project or a reviewer, as recorded in calls
ProjectCall(op, file, reviewer) == [op |-> op, file |-> file, reviewer |-> reviewer]

\* filterOutLegacyComments(pr, papi): the comments of the review that no comment
\* of the baseline file matches; papi.push is there when the inspect goal runs
filterOutLegacyComments(pr, files) ==
    LET legacyFile == files[LegacyFile]
        legacyIssues == IF legacyFile # <<>> THEN parseReview(legacyFile[1])
                        ELSE [repoId |-> RepoName, comments |-> <<>>]
    IN SelectSeq(pr, LAMBDA c :
         ~\E k \in DOMAIN legacyIssues.comments :
             LET lc == legacyIssues.comments[k]
             IN /\ lc.category = c.category
                /\ lc.subcategory = c.subcategory
                /\ stringifyLocation(lc.sourceLocation) = stringifyLocation(c.sourceLocation))

\* consolidate: the comments of the reviews, flattened
consolidate(reviews) == [repoId |-> RepoName, comments |-> Flatten(reviews)]

\* the push test of the autofix that always passes
BaselineAbsentMutAlways(files) == TRUE

\* pushTest: not(hasFile(LegacyFile))
BaselineAbsent(files) == files[LegacyFile] = <<>>

\* the autofix legacyFilteringBaselineAutofix: where the push test passes, every
\* reviewer is run and the consolidated review is added as the baseline file
legacyFilteringBaselineAutofix(files, reviews) ==
    IF ~BaselineAbsent(files) THEN [files |-> files, calls |-> <<>>]
    ELSE [files |-> [files EXCEPT ![LegacyFile] = <<stringifyReview(consolidate(reviews))>>],
          calls |-> [k \in DOMAIN Registrations |->
                        ProjectCall("inspection", <<>>, Registrations[k])]
                    \o <<ProjectCall("addFile", LegacyFile, "")>>]

(* ------------------------------------------------------------------ *)
(* Legacy filtering with one baseline file per reviewer                 *)
(* ------------------------------------------------------------------ *)

\* areEqual of two source locations, where it returns: a === b holds of two
\* undefined locations, never of a parsed location and a live one
areEqual(a, b) == a = b \/ (a.path = b.path /\ a.offset = b.offset)

\* areEqual reads .path of undefined when just one location is undefined
areEqualThrows(a, b) == (a = NoLocation) # (b = NoLocation)

\* the error of reading a property of undefined
UndefinedRead(property) ==
    [name |-> "TypeError",
     message |-> <<"Cannot read property '", property, "' of undefined">>,
     hasResponse |-> FALSE]

\* the comments of the baseline file of a reviewer, none without the file
legacyCommentsOf(rr, files) ==
    LET legacyFile == files[legacyFileNameFor(rr)]
    IN IF legacyFile # <<>> THEN parseComments(legacyFile[1]) ELSE <<>>

\* the operands of && before areEqual in the callback of some
SameFinding(lc, c) ==
    /\ lc.category = c.category
    /\ lc.subcategory = c.subcategory
    /\ lc.detail = c.detail

\* legacyComments.some(...) throws for a comment: areEqual is reached for a
\* baseline comment it throws on before some has found a match
someThrows(legacyComments, c) ==
    \E k \in DOMAIN legacyComments :
        /\ SameFinding(legacyComments[k], c)
        /\ areEqualThrows(legacyComments[k].sourceLocation, c.sourceLocation)
        /\ \A j \in 1..(k - 1) :
              ~(/\ SameFinding(legacyComments[j], c)
                /\ areEqual(legacyComments[j].sourceLocation, c.sourceLocation))

\* filterOutLegacyComments(rr, pr, papi) of this version rejects
filterOutLegacyCommentsThrows(rr, pr, files) ==
    \E i \in DOMAIN pr : someThrows(legacyCommentsOf(rr, files), pr[i])

\* filterOutLegacyComments(rr, pr, papi) of this version, where it returns
filterOutLegacyCommentsOf(rr, pr, files) ==
    LET legacyComments == legacyCommentsOf(rr, files)
    IN SelectSeq(pr, LAMBDA c :
         ~\E k \in DOMAIN legacyComments :
             LET lc == legacyComments[k]
             IN /\ SameFinding(lc, c)
                /\ areEqual(lc.sourceLocation, c.sourceLocation))

\* establishBaseline(rr, p, papi); review is what rr.inspection returns if run
establishBaseline(rr, st, review) ==
    LET legacyFile == legacyFileNameFor(rr)
    IN IF st.files[legacyFile] = <<>>
       THEN [files |-> [st.files EXCEPT ![legacyFile] = <<stringifyComments(review)>>],
             calls |-> st.calls \o <<ProjectCall("inspection", <<>>, rr),
                                     ProjectCall("addFile", legacyFile, "")>>]
       ELSE st

\* the transform of the autofix: establishBaseline for every registration (the
\* registrations have files of their own, so the order does not matter)
RECURSIVE establishBaselines(_, _, _)
establishBaselines(k, st, reviews) ==
    IF k > Len(Registrations) THEN st
    ELSE establishBaselines(k + 1, establishBaseline(Registrations[k], st, reviews[k]),
                            reviews)

\* the transform of clearBaselineCommand; reviewerName "" is no reviewerName
RECURSIVE clearBaselineCommand(_, _, _)
clearBaselineCommand(k, st, reviewerName) ==
    IF k > Len(Registrations) THEN st
    ELSE LET rr == Registrations[k]
             legacyFile == legacyFileNameFor(rr)
         IN clearBaselineCommand(k + 1,
                IF reviewerName = "" \/ reviewerName = rr
                THEN [files |-> [st.files EXCEPT ![legacyFile] = <<>>],
                      calls |-> Append(st.calls, ProjectCall("deleteFile", legacyFile, ""))]
                ELSE st,
                reviewerName)

(* ------------------------------------------------------------------ *)
(* The deployment listener, labelIssuesOnDeploymentListener            *)
(* ------------------------------------------------------------------ *)

\* pushes in the longest history of the default branch
MaxPushes == 5

\* the page size of retrieveCommitQuery, in pushes: 20 in the code, scaled down
PageSize == 2

\* deployment.environment
Environments == {"prod"}

\* a commit of the default branch; its timestamp orders it
Commit(t) == [sha |-> "c" \o ToString(t), timestamp |-> t]

\* a sha no commit of a branch has
UnknownSha == "c0"

\* the j-th newest of the n pushes of the branch: the oldest push has one
\* commit, every other push two, listed in the order they were made
PushOf(n, j) ==
    [commits |-> IF j = n THEN <<Commit(1)>>
                 ELSE <<Commit(2 * (n - j)), Commit(2 * (n - j) + 1)>>]

\* the shas of a branch of n pushes
ShasOf(n) == {Commit(t).sha : t \in 1..(2 * n - 1)}

\* the graph query CommitsForRepoAndBranch: the pushes of the branch, newest
\* first, page of them from offset on; nothing past the end
CommitsForRepoAndBranch(n, page, offset) ==
    LET count == IF n - offset < 0 THEN 0
                 ELSE IF n - offset < page THEN n - offset ELSE page
    IN [Push |-> [k \in 1..count |-> PushOf(n, offset + k)]]

\* retrieveCommitQuery(owner, repo, "master", ctx)(page): size defaults to 20
retrieveCommitQuery(n, page) == CommitsForRepoAndBranch(n, PageSize, page * PageSize)

\* _.sortBy(commits, "timestamp"): ascending, stable; every commit goes to the
\* place given by the number of commits that sort before it
SortByTimestamp(cs) ==
    LET Earlier(j) == {m \in DOMAIN cs :
                        \/ cs[m].timestamp < cs[j].timestamp
                        \/ (cs[m].timestamp = cs[j].timestamp /\ m < j)}
    IN [i \in DOMAIN cs |-> cs[CHOOSE j \in DOMAIN cs : Cardinality(Earlier(j)) = i - 1]]

\* Array.prototype.reverse
Reverse(s) == [i \in DOMAIN s |-> s[Len(s) + 1 - i]]

\* _.sortBy(_.flatten(result.Push.map(p => p.commits)), "timestamp").reverse().map(c => c.sha)
CommitChunks(result) ==
    LET sorted == Reverse(SortByTimestamp(
                      Flatten([k \in DOMAIN result.Push |-> result.Push[k].commits])))
    IN [i \in DOMAIN sorted |-> sorted[i].sha]

\* Array.prototype.findIndex(c => c === sha): zero-based, -1 when absent
FindIndex(chunks, sha) ==
    IF \E i \in DOMAIN chunks : chunks[i] = sha
    THEN (CHOOSE i \in DOMAIN chunks :
             chunks[i] = sha /\ \A j \in 1..(i - 1) : chunks[j] # sha) - 1
    ELSE -1

\* Array.prototype.slice(from, to) with zero-based non-negative indexes
Slice(s, from, to) == SubSeq(s, from + 1, IF to < Len(s) THEN to ELSE Len(s))

\* the loop going on until a page is empty, the previous commit found or not
CompleteMutWhenEmpty(commitChunks, eIx) == Len(commitChunks) = 0

\* commitChunks.length === 0 || eIx >= 0
Complete(commitChunks, eIx) == Len(commitChunks) = 0 \/ eIx >= 0

\* the deployments query result tested: exactly two deployments, the first of
\* them the current event's; <<>> stands for an undefined previousDeployment
previousDeployment(deployments, deployment) ==
    IF Len(deployments) = 2 /\ deployments[1].commit.sha = deployment.commit.sha
    THEN <<deployments[2]>>
    ELSE <<>>

\* the listener between two awaits: its event data and its local variables
NoDeployment ==
    [pc |-> "idle", sha |-> "", environment |-> "", previous |-> "", history |-> 0,
     counter |-> 0, foundStart |-> FALSE, complete |-> FALSE, commits |-> <<>>,
     pages |-> <<>>]

\* the body of the while (!complete) loop once the page has been read and
\* sorted; pages records the pages read
CommitPageOf(d, commitChunks) ==
    LET found == FindIndex(commitChunks, d.sha)
        eIx == FindIndex(commitChunks, d.previous)
        foundStart == d.foundStart \/ found >= 0
        sIx == IF found < 0 /\ foundStart THEN 0 ELSE found
        pushed == IF sIx >= 0
                  THEN IF eIx >= 0 THEN Slice(commitChunks, sIx, eIx)
                       ELSE Slice(commitChunks, sIx, Len(commitChunks))
                  ELSE <<>>
    IN [d EXCEPT !.counter = @ + 1,
                 !.foundStart = foundStart,
                 !.commits = @ \o pushed,
                 !.complete = Complete(commitChunks, eIx),
                 !.pages = Append(@, commitChunks),
                 !.pc = IF Complete(commitChunks, eIx) THEN "labelling" ELSE "paging"]

\* one iteration of the loop: await commitQuery(counter), then the body
CommitPage(d) ==
    CHOOSE next \in {CommitPageOf(d, commitChunks) :
                        commitChunks \in {CommitChunks(retrieveCommitQuery(d.history, d.counter))}} :
        TRUE

\* the commit-issue relationships the graph can hold: commit and issue name
Graphs ==
    {<<>>,
     <<[commit |-> "c2", issue |-> 1]>>,
     <<[commit |-> "c2", issue |-> 1], [commit |-> "c5", issue |-> 2]>>,
     <<[commit |-> "c3", issue |-> 2], [commit |-> "c4", issue |-> 3]>>}

\* the graph query CommitIssueRelationshipByCommit for a list of shas
CommitIssueRelationshipByCommit(graph, shas) ==
    SelectSeq(graph, LAMBDA r : r.commit \in Range(shas))

\* retrieveIssue: the issue as the graph has it, <<>> for undefined
retrieveIssue(iss, name) ==
    IF name \in DOMAIN iss
    THEN <<[title |-> iss[name].title, body |-> iss[name].body, labels |-> iss[name].labels]>>
    ELSE <<>>

\* the label of an environment
EnvLabel(environment) == "env:" \o environment

\* github.createLabel(owner, repo, label, api)
CreateLabelCall(label) == Call("createLabel", 0, <<>>, <<>>, "", TRUE, <<label>>, <<>>)

\* the label list sent without the labels the issue has
LabelsSentMutOnlyNew(issueData, label) == <<label>>

\* [...(issueData.labels || []).map(l => l.name), label]
LabelsSent(issueData, label) == Append(issueData.labels, label)

\* updateIssue of sdm-core's ghub: PATCH of title, body and labels; the state
\* is not sent and stays
ghubUpdateIssue(st, number, issue) ==
    LET req == [state |-> st.issues[number].state, body |-> issue.body,
                hasLabels |-> TRUE, labels |-> issue.labels]
        call == Call("update", number, issue.title, issue.body, "", TRUE, issue.labels, <<>>)
    IN [st EXCEPT !.issues = ghPatch(@, number, req), !.calls = Append(@, call)]

\* for (const issue of issues.CommitIssueRelationship)
RECURSIVE LabelRelated(_, _, _)
LabelRelated(relationships, label, st) ==
    IF relationships = <<>> THEN st
    ELSE
      LET name == Head(relationships).issue
          issueData == retrieveIssue(st.issues, name)
          st1 == IF issueData # <<>>
                 THEN ghubUpdateIssue(st, name,
                          [title |-> issueData[1].title, body |-> issueData[1].body,
                           labels |-> LabelsSent(issueData[1], label)])
                 ELSE st
      IN LabelRelated(Tail(relationships), label, st1)

\* steps 3 and 4 of the listener: the relationships of the commits found, the
\* label created, every related issue labelled
labelIssues(iss, graph, d) ==
    LET relationships == CommitIssueRelationshipByCommit(graph, d.commits)
        label == EnvLabel(d.environment)
    IN IF Len(relationships) > 0
       THEN LabelRelated(relationships, label,
                [Entry(iss, NoFault) EXCEPT !.calls = <<CreateLabelCall(label)>>])
       ELSE Entry(iss, NoFault)

(* ------------------------------------------------------------------ *)
(* The state machine                                                    *)
(* ------------------------------------------------------------------ *)

\* no reconciliation run is in progress
NoRuns == <<>>

NoPush == [branch |-> "", sha |-> ""]

\* no issue carries the tag or one of the category titles of the comments
Fresh(iss, source, comments) ==
    \A i \in DOMAIN iss :
        /\ ~Includes(iss[i].body, createTag(source))
        /\ \A k \in DOMAIN comments : iss[i].title # CategoryTitle(comments[k].category)

\* issues: the repository's issues on GitHub; calls: the API calls of the last
\* handler invocation, in order; events: the events sent to the message client;
\* last: the last invocation (handler, push or deleted branch, review comments,
\* sources, the issues before it, and whether it repeats the invocation before
\* it, that one having started without issues of its own, and the request
\* made to fail, if any, and the text passed in, if any); thrown: the error the
\* last invocation rejected with, <<>> when it completed; returned: the text
\* the last call of an exported function returned; project: the baseline
\* files of the project, <<>> for a file that is absent
Init ==
    /\ issues = <<>>
    /\ calls = <<>>
    /\ events = <<>>
    /\ thrown = <<>>
    /\ returned = <<>>
    /\ project = NoFiles
    /\ deploy = NoDeployment
    /\ runs = NoRuns
    /\ last = [op |-> "init", push |-> NoPush, comments |-> <<>>, sources |-> <<>>,
               pre |-> <<>>, repeat |-> FALSE, fault |-> NoFault, text |-> <<>>, reviewer |-> ""]

\* a push is reviewed and the per-category listener of a source is invoked
SingleIssuePerCategoryOn(Lists) ==
    \E source \in Sources, push \in Pushes, comments \in Lists :
        LET r == perCategoryRun(issues, source, push, comments, NoFault)
        IN /\ issues' = r.issues
           /\ calls' = r.calls
           /\ UNCHANGED events
           /\ thrown' = r.thrown
           /\ returned' = <<>>
           /\ UNCHANGED <<project, deploy, runs>>
           /\ last' = [op |-> "perCategory", push |-> push, comments |-> comments,
                       sources |-> <<source>>, pre |-> issues,
                       repeat |-> /\ OnDefaultBranch(push)
                                  /\ last.op = "perCategory"
                                  /\ last.push = push
                                  /\ last.comments = comments
                                  /\ last.sources = <<source>>
                                  /\ Fresh(last.pre, source, comments),
                       fault |-> NoFault, text |-> <<>>, reviewer |-> ""]

SingleIssuePerCategory == SingleIssuePerCategoryOn(CommentLists)

\* a branch of the repository is deleted
BranchDeleted ==
    \E sources \in SourceLists, branch \in Branches :
        LET r == CloseForSources(sources, branch, Entry(issues, NoFault))
        IN /\ issues' = r.issues
           /\ calls' = r.calls
           /\ UNCHANGED events
           /\ thrown' = r.thrown
           /\ returned' = <<>>
           /\ UNCHANGED <<project, deploy, runs>>
           /\ last' = [op |-> "branchDeleted", push |-> [branch |-> branch, sha |-> ""],
                       comments |-> <<>>, sources |-> sources, pre |-> issues,
                       repeat |-> FALSE, fault |-> NoFault, text |-> <<>>, reviewer |-> ""]

Next == SingleIssuePerCategory \/ BranchDeleted

Spec == Init /\ [][Next]_vars

\* a push is reviewed and the single-issue listener is invoked
SingleIssue ==
    \E push \in Pushes, comments \in ListenerLists :
        LET r == singleIssueRun(issues, push, comments)
        IN /\ issues' = r.issues
           /\ calls' = r.calls
           /\ UNCHANGED events
           /\ thrown' = r.thrown
           /\ returned' = <<>>
           /\ UNCHANGED <<project, deploy, runs>>
           /\ last' = [op |-> "single", push |-> push, comments |-> comments,
                       sources |-> <<>>, pre |-> issues, repeat |-> FALSE, fault |-> NoFault, text |-> <<>>, reviewer |-> ""]

\* a push is reviewed and the multi-issue listener is invoked
MultiIssue ==
    \E push \in Pushes, comments \in ListenerLists :
        LET r == multiIssueRun(issues, push, comments)
        IN /\ issues' = r.issues
           /\ calls' = r.calls
           /\ UNCHANGED events
           /\ thrown' = r.thrown
           /\ returned' = <<>>
           /\ UNCHANGED <<project, deploy, runs>>
           /\ last' = [op |-> "multi", push |-> push, comments |-> comments,
                       sources |-> <<>>, pre |-> issues, repeat |-> FALSE, fault |-> NoFault, text |-> <<>>, reviewer |-> ""]

SingleIssuePerCategoryListed == SingleIssuePerCategoryOn(ListenerLists)

\* the three review listeners, each registered on its own
NextListeners == SingleIssuePerCategoryListed \/ SingleIssue \/ MultiIssue

SpecListeners == Init /\ [][NextListeners]_vars

\* the source and the reviews of the installation whose requests can fail
FaultySources == {<<"T">>}

FaultyLists == {s \in CommentLists : Range(s) \subseteq {K1, K3}}

\* a push is reviewed and the per-category listener is invoked; a request may fail
SingleIssuePerCategoryFaulty ==
    \E source \in FaultySources, push \in Pushes, comments \in FaultyLists, fault \in Faults :
        LET r == perCategoryRun(issues, source, push, comments, fault)
        IN /\ issues' = r.issues
           /\ calls' = r.calls
           /\ UNCHANGED events
           /\ thrown' = r.thrown
           /\ returned' = <<>>
           /\ UNCHANGED <<project, deploy, runs>>
           /\ last' = [op |-> "perCategory", push |-> push, comments |-> comments,
                       sources |-> <<source>>, pre |-> issues, repeat |-> FALSE,
                       fault |-> fault, text |-> <<>>, reviewer |-> ""]

\* a branch of the repository is deleted; a request may fail
BranchDeletedFaulty ==
    \E sources \in {l \in SourceLists : Range(l) \subseteq FaultySources},
       branch \in Branches, fault \in Faults :
        LET r == CloseForSources(sources, branch, Entry(issues, fault))
        IN /\ issues' = r.issues
           /\ calls' = r.calls
           /\ UNCHANGED events
           /\ thrown' = r.thrown
           /\ returned' = <<>>
           /\ UNCHANGED <<project, deploy, runs>>
           /\ last' = [op |-> "branchDeleted", push |-> [branch |-> branch, sha |-> ""],
                       comments |-> <<>>, sources |-> sources, pre |-> issues,
                       repeat |-> FALSE, fault |-> fault, text |-> <<>>, reviewer |-> ""]

NextFaulty == SingleIssuePerCategoryFaulty \/ BranchDeletedFaulty

SpecFaulty == Init /\ [][NextFaulty]_vars

\* the reviews and the source of the installation that labels on deployment
DeployLists == {<<>>, <<K1>>, <<K1, K3>>}

\* a deployment event with the state of the graph when it is handled: the
\* pushes of the default branch, the event's commit and what the deployments
\* query returns. A query result of another shape than <<current, previous>>
\* ends the handler before the history is read, so one history stands for all.
DeploymentEvents(histories) ==
    LET Deployment(sha, environment) == [commit |-> [sha |-> sha], environment |-> environment]
    IN {[history |-> n, deployment |-> Deployment(sha, e),
         deployments |-> <<Deployment(sha, e), Deployment(prev, e)>>] :
            <<n, sha, prev, e>> \in
                {q \in histories \X (ShasOf(MaxPushes) \cup {UnknownSha})
                       \X (ShasOf(MaxPushes) \cup {UnknownSha}) \X Environments :
                    {q[2], q[3]} \subseteq ShasOf(q[1]) \cup {UnknownSha}}}
       \cup
       {[history |-> 1, deployment |-> Deployment(sha, e), deployments |-> ds] :
            <<sha, e, ds>> \in
                {q \in {"c1", UnknownSha} \X Environments
                       \X {<<>>, <<Deployment("c1", "prod")>>,
                           <<Deployment(UnknownSha, "prod"), Deployment("c1", "prod")>>,
                           <<Deployment("c1", "prod"), Deployment("c1", "prod"),
                             Deployment(UnknownSha, "prod")>>} :
                    Len(q[3]) # 2 \/ q[3][1].commit.sha # q[1]}}

\* a push to the default branch is reviewed while no deployment is handled
InspectedBetweenDeployments ==
    /\ deploy.pc = "idle"
    /\ \E comments \in DeployLists :
        LET push == [branch |-> DefaultBranch, sha |-> "sha1"]
            r == perCategoryRun(issues, <<"T">>, push, comments, NoFault)
        IN /\ issues' = r.issues
           /\ calls' = r.calls
           /\ UNCHANGED events
           /\ thrown' = r.thrown
           /\ returned' = <<>>
           /\ UNCHANGED <<project, deploy, runs>>
           /\ last' = [op |-> "perCategory", push |-> push, comments |-> comments,
                       sources |-> <<<<"T">>>>, pre |-> issues, repeat |-> FALSE,
                       fault |-> NoFault, text |-> <<>>, reviewer |-> ""]

\* a branch is deleted while no deployment is handled
BranchDeletedBetweenDeployments ==
    /\ deploy.pc = "idle"
    /\ \E branch \in {"feature"} :
        LET r == CloseForSources(<<<<"T">>>>, branch, Entry(issues, NoFault))
        IN /\ issues' = r.issues
           /\ calls' = r.calls
           /\ UNCHANGED events
           /\ thrown' = r.thrown
           /\ returned' = <<>>
           /\ UNCHANGED <<project, deploy, runs>>
           /\ last' = [op |-> "branchDeleted", push |-> [branch |-> branch, sha |-> ""],
                       comments |-> <<>>, sources |-> <<<<"T">>>>, pre |-> issues,
                       repeat |-> FALSE, fault |-> NoFault, text |-> <<>>, reviewer |-> ""]

\* the record of a handled deployment event
DeploymentHandled(event, d, graph) ==
    [op |-> "labelIssuesOnDeployment", push |-> NoPush, comments |-> <<>>,
     sources |-> <<>>, pre |-> issues, repeat |-> FALSE, fault |-> NoFault,
     text |-> <<>>, reviewer |-> "", event |-> event, deployment |-> d, graph |-> graph]

\* a deployment is recorded: step 1 of the listener, which returns when it
\* finds no previous deployment and else starts paging through the commits
DeploymentRecordedOn(histories) ==
    /\ deploy.pc = "idle"
    /\ \E event \in DeploymentEvents(histories) :
        LET previous == previousDeployment(event.deployments, event.deployment)
        IN /\ IF previous = <<>>
              THEN /\ deploy' = NoDeployment
                   /\ last' = DeploymentHandled(event, NoDeployment, <<>>)
              ELSE /\ deploy' = [NoDeployment EXCEPT
                                   !.pc = "paging",
                                   !.sha = event.deployment.commit.sha,
                                   !.environment = event.deployment.environment,
                                   !.previous = previous[1].commit.sha,
                                   !.history = event.history]
                   /\ last' = [DeploymentHandled(event, NoDeployment, <<>>) EXCEPT
                                 !.op = "deploymentRecorded"]
           /\ calls' = <<>>
           /\ thrown' = <<>>
           /\ returned' = <<>>
           /\ UNCHANGED <<issues, events, project, runs>>

\* a deployment of a repository with the longest history
DeploymentRecorded == DeploymentRecordedOn({MaxPushes})

\* a deployment of a repository with a history of any length, none included
DeploymentRecordedAnyHistory == DeploymentRecordedOn(0..MaxPushes)

\* step 2 of the listener: one page of commits is read
CommitPageRead ==
    /\ deploy.pc = "paging"
    /\ deploy' = CommitPage(deploy)
    /\ UNCHANGED <<issues, calls, events, thrown, returned, project, runs, last>>

\* steps 3 and 4 of the listener: the issues of the commits are labelled and
\* the handler returns
IssuesLabelled ==
    /\ deploy.pc = "labelling"
    /\ \E graph \in Graphs :
        LET r == labelIssues(issues, graph, deploy)
        IN /\ issues' = r.issues
           /\ calls' = r.calls
           /\ thrown' = r.thrown
           /\ returned' = <<>>
           /\ deploy' = NoDeployment
           /\ UNCHANGED <<events, project, runs>>
           /\ last' = DeploymentHandled(last.event, deploy, graph)

NextDeployment ==
    \/ InspectedBetweenDeployments
    \/ BranchDeletedBetweenDeployments
    \/ DeploymentRecorded
    \/ CommitPageRead
    \/ IssuesLabelled

SpecDeployment == Init /\ [][NextDeployment]_vars

\* the deployment listener on its own
NextPaging == DeploymentRecordedAnyHistory \/ CommitPageRead \/ IssuesLabelled

\* the handler goes on whenever it can: no await of it is left pending
SpecPaging ==
    Init /\ [][NextPaging]_vars /\ WF_vars(CommitPageRead)

\* the reviews of the two pushes whose listener invocations overlap
ConcurrentLists == {<<>>, <<K1>>, <<K4>>, <<K1, K3>>}

\* the source and the push of the overlapping invocations
ConcurrentSource == <<"T">>

ConcurrentPush == [branch |-> DefaultBranch, sha |-> "sha1"]

\* an invocation of singleIssuePerCategoryManagingReviewListener between two
\* awaits: where it is (pc), its review comments, the categories the for loop
\* has still to handle, knownIssues, existingIssue and its writes so far
RunStarted(comments) ==
    [pc |-> "findIssues", comments |-> comments, categories |-> GroupKeys(comments),
     knownIssues |-> <<>>, existingIssue |-> <<>>, writes |-> <<>>]

\* the invocation after the body of the for loop for one category: the next
\* category, or "Close the remaining issues"
NextCategory(run) ==
    LET rest == Tail(run.categories)
    IN [run EXCEPT !.categories = rest,
                   !.existingIssue = <<>>,
                   !.pc = IF rest # <<>> THEN "findIssue"
                          ELSE IF Len(run.knownIssues) > 0 THEN "close" ELSE "done"]

\* the body the invocation gives the issue of the category at hand
RunBody(run) ==
    WithTag(SubCategorySortingBodyFormatter(
                SelectSeq(run.comments, LAMBDA c : c.category = Head(run.categories)),
                ConcurrentPush.sha),
            createTag(ConcurrentSource))

\* two pushes to the default branch are reviewed and the listener is invoked
\* for both before either invocation has made a request
RunsStarted ==
    /\ \A r \in DOMAIN runs : runs[r].pc = "done"
    /\ \E first \in ConcurrentLists, second \in ConcurrentLists :
        /\ runs' = <<RunStarted(first), RunStarted(second)>>
        /\ last' = [op |-> "concurrent", push |-> ConcurrentPush, comments |-> <<>>,
                    sources |-> <<ConcurrentSource>>, pre |-> issues, repeat |-> FALSE,
                    fault |-> NoFault, text |-> <<>>, reviewer |-> "",
                    lists |-> <<first, second>>]
    /\ calls' = <<>>
    /\ thrown' = <<>>
    /\ returned' = <<>>
    /\ UNCHANGED <<issues, events, project, deploy>>

\* await findIssues(ri.credentials, ri.id, tag) of one invocation
TagSearched ==
    \E r \in DOMAIN runs :
        /\ runs[r].pc = "findIssues"
        /\ LET knownIssues == localFindIssues(issues, createTag(ConcurrentSource))
           IN /\ runs' = [runs EXCEPT
                            ![r].knownIssues = knownIssues,
                            ![r].pc = IF runs[r].categories # <<>> THEN "findIssue"
                                      ELSE IF Len(knownIssues) > 0 THEN "close"
                                      ELSE "done"]
              /\ calls' = Append(calls, SearchCall(createTag(ConcurrentSource),
                                                   Numbers(knownIssues)))
        /\ UNCHANGED <<issues, events, thrown, returned, project, deploy, last>>

\* await findIssue(ri.credentials, ri.id, title) of one invocation, and what
\* follows it up to the next await
TitleSearched ==
    \E r \in DOMAIN runs :
        /\ runs[r].pc = "findIssue"
        /\ LET title == CategoryTitle(Head(runs[r].categories))
               existingIssue == localFindIssue(issues, title)
               found == [runs[r] EXCEPT
                           !.existingIssue = existingIssue,
                           !.knownIssues = SelectSeq(@, LAMBDA i : i.title # title)]
           IN /\ runs' = [runs EXCEPT
                            ![r] = IF existingIssue = <<>>
                                   THEN [found EXCEPT !.pc = "create"]
                                   ELSE IF BodyChanged(RunBody(found), existingIssue[1])
                                        THEN [found EXCEPT !.pc = "update"]
                                        ELSE NextCategory(found)]
              /\ calls' = Append(calls, SearchCall(title, Numbers(existingIssue)))
        /\ UNCHANGED <<issues, events, thrown, returned, project, deploy, last>>

\* await createIssue(ri.credentials, ri.id, issue) of one invocation
IssueCreated ==
    \E r \in DOMAIN runs :
        /\ runs[r].pc = "create"
        /\ LET st == localCreateIssue(Entry(issues, NoFault),
                         [title |-> CategoryTitle(Head(runs[r].categories)),
                          body |-> RunBody(runs[r])])
           IN /\ issues' = st.issues
              /\ calls' = calls \o st.calls
              /\ runs' = [runs EXCEPT
                            ![r] = NextCategory([runs[r] EXCEPT !.writes = @ \o st.calls])]
        /\ UNCHANGED <<events, thrown, returned, project, deploy, last>>

\* await updateIssue(ri.credentials, ri.id, {...existingIssue, state: "open", body})
IssueUpdated ==
    \E r \in DOMAIN runs :
        /\ runs[r].pc = "update"
        /\ LET st == localUpdateIssue(Entry(issues, NoFault),
                         Reopened(runs[r].existingIssue[1], RunBody(runs[r])))
           IN /\ issues' = st.issues
              /\ calls' = calls \o st.calls
              /\ runs' = [runs EXCEPT
                            ![r] = NextCategory([runs[r] EXCEPT !.writes = @ \o st.calls])]
        /\ UNCHANGED <<events, thrown, returned, project, deploy, last>>

\* await updateIssue(ri.credentials, ri.id, {...existingIssue, state: "closed"})
\* for the next of the remaining issues
IssueClosed ==
    \E r \in DOMAIN runs :
        /\ runs[r].pc = "close"
        /\ LET st == localUpdateIssue(Entry(issues, NoFault),
                         [Head(runs[r].knownIssues) EXCEPT !.state = "closed"])
               rest == Tail(runs[r].knownIssues)
           IN /\ issues' = st.issues
              /\ calls' = calls \o st.calls
              /\ runs' = [runs EXCEPT
                            ![r].knownIssues = rest,
                            ![r].writes = @ \o st.calls,
                            ![r].pc = IF rest # <<>> THEN "close" ELSE "done"]
        /\ UNCHANGED <<events, thrown, returned, project, deploy, last>>

NextConcurrent ==
    \/ RunsStarted
    \/ TagSearched
    \/ TitleSearched
    \/ IssueCreated
    \/ IssueUpdated
    \/ IssueClosed

SpecConcurrent == Init /\ [][NextConcurrent]_vars

\* the positions of the line feeds of a body: none, one or two
LineFeedPositions(length) == {{}} \cup {{i, j} : i, j \in 1..length}

\* the position of the carriage return of a body: none or one
CarriageReturnPositions(length) == {{}} \cup {{i} : i \in 1..length}

\* the body of a length with line feeds and carriage returns at the positions
BodyOf(length, lf, cr) ==
    [i \in 1..length |-> IF i \in lf THEN "\n" ELSE IF i \in cr THEN "\r" ELSE "a"]

\* the bodies passed to truncateBodyIfTooLarge, up to a length
Bodies(maxLength) ==
    UNION {{BodyOf(length, lf, cr) : lf \in LineFeedPositions(length),
                                    cr \in CarriageReturnPositions(length)}
           : length \in 0..maxLength}

\* a caller holds a body
InitTruncate ==
    /\ issues = <<>>
    /\ calls = <<>>
    /\ events = <<>>
    /\ thrown = <<>>
    /\ returned = <<>>
    /\ project = NoFiles
    /\ deploy = NoDeployment
    /\ runs = NoRuns
    /\ \E body \in Bodies(BodySizeLimit + MaxOver) :
          last = [op |-> "init", push |-> NoPush, comments |-> <<>>, sources |-> <<>>,
                  pre |-> <<>>, repeat |-> FALSE, fault |-> NoFault, text |-> body, reviewer |-> ""]

\* the caller calls truncateBodyIfTooLarge(body)
TruncateBodyIfTooLarge ==
    /\ last.op = "init"
    /\ returned' = truncateBodyIfTooLarge(last.text)
    /\ last' = [last EXCEPT !.op = "truncateBodyIfTooLarge"]
    /\ UNCHANGED <<issues, calls, events, thrown, project, deploy, runs>>

NextTruncate == TruncateBodyIfTooLarge

SpecTruncate == InitTruncate /\ [][NextTruncate]_vars

\* the comment lists passed to a body formatter: no comment twice
FormatLists ==
    UNION {{l \in [1..n -> CommentPool \cup {K4}] : \A i, j \in 1..n : i # j => l[i] # l[j]}
           : n \in 0..MaxFormatted}

\* a caller holds review comments and a repo ref
InitFormat ==
    /\ issues = <<>>
    /\ calls = <<>>
    /\ events = <<>>
    /\ thrown = <<>>
    /\ returned = <<>>
    /\ project = NoFiles
    /\ deploy = NoDeployment
    /\ runs = NoRuns
    /\ \E comments \in FormatLists, sha \in Shas :
          last = [op |-> "init", push |-> [branch |-> DefaultBranch, sha |-> sha],
                  comments |-> comments, sources |-> <<>>, pre |-> <<>>, repeat |-> FALSE,
                  fault |-> NoFault, text |-> <<>>, reviewer |-> ""]

\* the caller calls CategorySortingBodyFormatter(comments, rr)
FormatByCategory ==
    /\ last.op = "init"
    /\ returned' = CategorySortingBodyFormatter(last.comments, last.push.sha)
    /\ last' = [last EXCEPT !.op = "CategorySortingBodyFormatter"]
    /\ UNCHANGED <<issues, calls, events, thrown, project, deploy, runs>>

\* the caller calls SubCategorySortingBodyFormatter(comments, rr)
FormatBySubCategory ==
    /\ last.op = "init"
    /\ returned' = SubCategorySortingBodyFormatter(last.comments, last.push.sha)
    /\ last' = [last EXCEPT !.op = "SubCategorySortingBodyFormatter"]
    /\ UNCHANGED <<issues, calls, events, thrown, project, deploy, runs>>

NextFormat == FormatByCategory \/ FormatBySubCategory

SpecFormat == InitFormat /\ [][NextFormat]_vars

\* a reviewer wrapped by legacy filtering inspects the project of a push
LegacyFilteredInspection ==
    \E k \in DOMAIN Registrations, raw \in Reviews :
        /\ returned' = filterOutLegacyComments(raw, project)
        /\ calls' = <<ProjectCall("inspection", <<>>, Registrations[k])>>
        /\ last' = [op |-> "inspection", push |-> NoPush, comments |-> raw,
                    sources |-> <<>>, pre |-> <<>>, repeat |-> FALSE, fault |-> NoFault,
                    text |-> <<>>, reviewer |-> Registrations[k]]
        /\ UNCHANGED <<issues, events, thrown, project, deploy, runs>>

\* the autofix goal runs on a push: the baseline autofix with its push test
BaselineAutofix ==
    \E reviews \in IF BaselineAbsent(project) THEN [DOMAIN Registrations -> Reviews]
                   ELSE {[k \in DOMAIN Registrations |-> <<>>]} :
        LET r == legacyFilteringBaselineAutofix(project, reviews)
        IN /\ project' = r.files
           /\ calls' = r.calls
           /\ returned' = <<>>
           /\ last' = [op |-> "autofix", push |-> NoPush, comments |-> Flatten(reviews),
                       sources |-> <<>>, pre |-> <<>>, repeat |-> FALSE, fault |-> NoFault,
                       text |-> <<>>, reviewer |-> ""]
           /\ UNCHANGED <<issues, events, thrown, deploy, runs>>

NextLegacy == LegacyFilteredInspection \/ BaselineAutofix

SpecLegacy == Init /\ [][NextLegacy]_vars

\* the same, with one baseline file per reviewer
InspectionPerReviewer ==
    \E k \in DOMAIN Registrations, raw \in ReviewerReviews :
        /\ IF filterOutLegacyCommentsThrows(Registrations[k], raw, project)
           THEN /\ thrown' = <<UndefinedRead("path")>>
                /\ returned' = <<>>
           ELSE /\ thrown' = <<>>
                /\ returned' = filterOutLegacyCommentsOf(Registrations[k], raw, project)
        /\ calls' = <<ProjectCall("inspection", <<>>, Registrations[k])>>
        /\ last' = [op |-> "inspection", push |-> NoPush, comments |-> raw,
                    sources |-> <<>>, pre |-> <<>>, repeat |-> FALSE, fault |-> NoFault,
                    text |-> <<>>, reviewer |-> Registrations[k]]
        /\ UNCHANGED <<issues, events, project, deploy, runs>>

AutofixPerReviewer ==
    \E reviews \in [DOMAIN Registrations -> ReviewerReviews] :
        /\ \A k \in DOMAIN Registrations :
              project[legacyFileNameFor(Registrations[k])] # <<>> => reviews[k] = <<>>
        /\ LET r == establishBaselines(1, [files |-> project, calls |-> <<>>], reviews)
           IN /\ project' = r.files
              /\ calls' = r.calls
              /\ returned' = <<>>
              /\ last' = [op |-> "autofix", push |-> NoPush, comments |-> Flatten(reviews),
                          sources |-> <<>>, pre |-> <<>>, repeat |-> FALSE,
                          fault |-> NoFault, text |-> <<>>, reviewer |-> ""]
              /\ thrown' = <<>>
              /\ UNCHANGED <<issues, events, deploy, runs>>

ClearBaseline ==
    \E reviewerName \in {""} \cup Range(Registrations) :
        LET r == clearBaselineCommand(1, [files |-> project, calls |-> <<>>], reviewerName)
        IN /\ project' = r.files
           /\ calls' = r.calls
           /\ returned' = <<>>
           /\ last' = [op |-> "clearBaseline", push |-> NoPush, comments |-> <<>>,
                       sources |-> <<>>, pre |-> <<>>, repeat |-> FALSE, fault |-> NoFault,
                       text |-> <<>>, reviewer |-> reviewerName]
           /\ thrown' = <<>>
           /\ UNCHANGED <<issues, events, deploy, runs>>

NextPerReviewer == InspectionPerReviewer \/ AutofixPerReviewer \/ ClearBaseline

SpecPerReviewer == Init /\ [][NextPerReviewer]_vars

(* ------------------------------------------------------------------ *)
(* Claims                                                               *)
(* ------------------------------------------------------------------ *)

CallsOf(op) == SelectSeq(calls, LAMBDA c : c.op = op)

\* the last invocation was the per-category listener on the default branch
ReconciledLast == last.op = "perCategory" /\ last.push.branch = DefaultBranch

LastTag == <<"[atomist:code-inspection=">> \o toLowerCase(last.sources[1]) \o <<"]">>

LastCategories == {last.comments[k].category : k \in DOMAIN last.comments}

\* the issue with this title before the last invocation, as a set
Before(title) == {i \in Range(last.pre) : i.title = title}

\* the body the last invocation formats for a category
NewBody(category) ==
    SubCategorySortingBodyFormatter(
        SelectSeq(last.comments, LAMBDA c : c.category = category), last.push.sha)
    \o <<"\n\n">> \o LastTag

C2_OtherBranchesIgnored ==
    (last.op \in {"perCategory", "single", "multi"} /\ last.push.branch # DefaultBranch)
        => calls = <<>> /\ issues = last.pre

C2_Witness ==
    /\ last.op = "multi" /\ last.push.branch # DefaultBranch
    /\ last.comments # <<>> /\ Len(issues) >= 3

\* C3: no duplicate issues. From an empty repository, whatever runs are made one
\* after another, no two issues have the same title, and every create call
\* directly follows a title search that found no issue with that title.
C3_NoDuplicateIssues ==
    /\ \A i, j \in DOMAIN issues : issues[i].title = issues[j].title => i = j
    /\ \A k \in DOMAIN calls :
          calls[k].op = "create"
            => /\ k > 1
               /\ calls[k - 1].op = "search"
               /\ calls[k - 1].body = calls[k].title
               /\ calls[k - 1].found = <<>>
               /\ Before(calls[k].title) = {}

C3_Witness ==
    /\ ReconciledLast /\ Len(issues) = 2 /\ Len(last.pre) = 2
    /\ CallsOf("create") = <<>>
    /\ \E c \in Range(CallsOf("update")) : c.state = "open" /\ last.pre[c.number].state = "closed"

\* C4: for a category with comments whose issue exists, an update call is made
\* exactly when the formatted body plus tag differs from the stored body, and
\* that update carries the new body and state open, so the issue is open
\* afterwards whatever its state was.
C4_UpdateIffBodyDiffers ==
    ReconciledLast =>
        \A category \in LastCategories :
            \A e \in Before(<<"Code Inspection: ", category>>) :
                LET updates == SelectSeq(calls, LAMBDA c : c.op = "update" /\ c.number = e.number)
                IN /\ (updates # <<>>) <=> (NewBody(category) # e.body)
                   /\ Len(updates) <= 1
                   /\ \A c \in Range(updates) :
                         /\ c.state = "open" /\ c.body = NewBody(category)
                         /\ issues[e.number].state = "open"
                         /\ issues[e.number].body = NewBody(category)
                   /\ updates = <<>> => issues[e.number] = e

C4_Witness ==
    /\ ReconciledLast
    /\ \E c \in Range(CallsOf("update")) :
          /\ c.state = "open" /\ last.pre[c.number].state = "closed"
          /\ issues[c.number].state = "open"
    /\ \E category \in LastCategories :
          \E e \in Before(<<"Code Inspection: ", category>>) :
              NewBody(category) = e.body

\* C5: a tagged issue whose category has no relevant comment in the push gets a
\* closing comment first and is set to closed afterwards, its body being left
\* as it was.
C5_ClosingCommentThenClose ==
    ReconciledLast =>
        \A k \in DOMAIN calls :
            (calls[k].op = "update" /\ calls[k].state = "closed")
              => /\ \E j \in 1..(k - 1) :
                       calls[j].op = "comment" /\ calls[j].number = calls[k].number
                 /\ calls[k].body = last.pre[calls[k].number].body

\* C6: every issue a reconciliation run creates, updates or closes is linked to
\* the push's after-commit by a CommitIssueRelationship event of type references.
C6_LinkEventForEveryWrite ==
    ReconciledLast =>
        \A c \in Range(calls) :
            c.op \in {"create", "update"}
              => raiseIssueLinkEvent(c.number, last.push) \in Range(events)

\* C7: every body the per-category reconciler writes, on create and on update,
\* ends with the complete tag, and the tag search on the repository afterwards
\* returns the issue written.
C7_TagVerbatimInBody ==
    ReconciledLast =>
        \A c \in Range(calls) :
            (c.op = "create" \/ (c.op = "update" /\ c.state = "open"))
              => /\ EndsWith(c.body, LastTag)
                 /\ EndsWith(issues[c.number].body, LastTag)
                 /\ c.number \in Range(Numbers(localFindIssues(issues, LastTag)))

C7_Witness ==
    /\ ReconciledLast
    /\ CallsOf("create") # <<>>
    /\ \E c \in Range(CallsOf("update")) : c.state = "open"

\* the tag of a source and a branch in the format
\* [atomist:code-inspection:<branch>=<source>], both lowercased
BranchTag(source, branch) ==
    <<"[atomist:code-inspection:", branch, "=">> \o toLowerCase(source) \o <<"]">>

\* C8: the tag names the source and the branch. An issue closed because branch
\* b was deleted carries the tag [atomist:code-inspection:<b>=<source>] of a
\* configured source, and the deletion of a branch closes no issue the
\* reconciler created for another branch (it creates issues for the default
\* branch only).
C8_TagPerSourceAndBranch ==
    last.op = "branchDeleted" =>
        /\ \A c \in Range(CallsOf("update")) :
              \E k \in DOMAIN last.sources :
                  Includes(c.body, BranchTag(last.sources[k], last.push.branch))
        /\ last.push.branch # DefaultBranch
              => CallsOf("update") = <<>> /\ issues = last.pre

\* C9: every create request and every update request carries the label
\* code-inspection exactly once.
C9_CodeInspectionLabelOnce ==
    \A c \in Range(calls) :
        c.op \in {"create", "update"}
          => /\ c.hasLabels
             /\ Cardinality({k \in DOMAIN c.labels : c.labels[k] = "code-inspection"}) = 1

\* C10: an issue the reconciler creates for a category is labelled by severity:
\* bug if a comment of the category has severity error, otherwise enhancement
\* if one has severity warn, otherwise neither.
C10_SeverityLabels ==
    ReconciledLast =>
        \A category \in LastCategories :
            \A c \in Range(CallsOf("create")) :
                c.title = <<"Code Inspection: ", category>>
                  => LET severities == {last.comments[k].severity :
                                          k \in {j \in DOMAIN last.comments :
                                                   last.comments[j].category = category}}
                         given == IF c.hasLabels THEN Range(c.labels) ELSE {}
                     IN /\ ("bug" \in given) <=> ("error" \in severities)
                        /\ ("enhancement" \in given)
                             <=> ("error" \notin severities /\ "warn" \in severities)

\* the issues the branch-deletion listener's findIssue filter lets pass for a
\* tag, out of the issues before the invocation
Matches(tag) == {i \in Range(last.pre) : Includes(i.body, tag)}

\* C11: findIssue returns nothing only when no issue passes its filter;
\* otherwise it returns a passing issue that is open whenever some passing
\* issue is open, whatever the numbers, and that has the highest number among
\* the passing issues of its state.
C11_OpenFirstThenHighestNumber ==
    last.op = "branchDeleted" =>
        \A k \in DOMAIN calls :
            calls[k].op = "search"
              => LET matches == Matches(calls[k].body)
                     found == {i \in Range(last.pre) : i.number \in Range(calls[k].found)}
                 IN /\ Len(calls[k].found) <= 1
                    /\ (found = {}) <=> (matches = {})
                    /\ found \subseteq matches
                    /\ \A f \in found :
                          /\ (\E m \in matches : m.state = "open") => f.state = "open"
                          /\ \A m \in matches : m.state = f.state => m.number <= f.number

\* an open issue is returned although a closed match has a higher number
C11_Witness ==
    /\ last.op = "branchDeleted"
    /\ \E k \in DOMAIN calls :
          /\ calls[k].op = "search"
          /\ \E f, m \in Matches(calls[k].body) :
                /\ calls[k].found = <<f.number>>
                /\ f.state = "open" /\ m.state = "closed" /\ m.number > f.number

FaultHit == last.fault.at \in 1..Len(calls)

\* C13: when a request of an invocation fails, with or without a response, the
\* invocation rejects with the original error, its message prefixed with the
\* context; the failing request is the last one made (made once, nothing after
\* it) and has changed no issue.
C13_FailureRethrownWithContext ==
    FaultHit =>
        /\ Len(calls) = last.fault.at
        /\ thrown # <<>>
        /\ \A e \in Range(thrown) :
              /\ e.name = AxiosError(last.fault.kind).name
              /\ e.hasResponse = AxiosError(last.fault.kind).hasResponse
              /\ EndsWith(e.message, AxiosError(last.fault.kind).message)
              /\ Len(e.message) > Len(AxiosError(last.fault.kind).message)

\* what holds of every failing request in both handlers: it is the last request
\* made and the invocation rejects
FailureStopsTheRun == FaultHit => Len(calls) = last.fault.at /\ thrown # <<>>

\* what holds of the branch-deletion listener, which uses the issue client
ClientFailureRethrownWithContext ==
    last.op = "branchDeleted" => C13_FailureRethrownWithContext

\* the comment the branch-deletion listener posts
DeletionComment(branch) == <<"Issue closed because branch ", "'", branch, "'", " was deleted">>

\* C14: on a branch deletion the sources are handled in order, one search
\* each. A source whose issue is found open gets the comment "Issue closed
\* because branch ... was deleted" and then the update to closed; a source
\* with no issue, or whose issue is closed already, gets neither, and the next
\* source is handled; the handler completes.
C14_DeletionClosesOpenTaggedIssues ==
    last.op = "branchDeleted" =>
        /\ thrown = <<>>
        /\ LET searches == CallsOf("search")
           IN /\ Len(searches) = Len(last.sources)
              /\ \A k \in DOMAIN searches : searches[k].body = createTag(last.sources[k])
        /\ \A k \in DOMAIN calls :
              /\ calls[k].op = "search"
                   => IF calls[k].found # <<>> /\ last.pre[calls[k].found[1]].state = "open"
                      THEN /\ k + 2 <= Len(calls)
                           /\ calls[k + 1].op = "comment"
                           /\ calls[k + 1].number = calls[k].found[1]
                           /\ calls[k + 1].body = DeletionComment(last.push.branch)
                           /\ calls[k + 2].op = "update"
                           /\ calls[k + 2].number = calls[k].found[1]
                           /\ calls[k + 2].state = "closed"
                           /\ issues[calls[k].found[1]].state = "closed"
                      ELSE k = Len(calls) \/ calls[k + 1].op = "search"
              /\ calls[k].op = "comment" => k > 1 /\ calls[k - 1].op = "search"
              /\ calls[k].op = "update" => k > 1 /\ calls[k - 1].op = "comment"
              /\ calls[k].op # "create"

\* the first source's issue is closed already and is left alone, the second
\* source's issue is open and is commented on and closed
C14_Witness ==
    /\ last.op = "branchDeleted"
    /\ Len(calls) = 4
    /\ calls[1].op = "search" /\ calls[1].found # <<>>
    /\ calls[2].op = "search" /\ calls[3].op = "comment" /\ calls[4].op = "update"

\* truncateBodyIfTooLarge has been applied to last.text
Truncated == last.op = "truncateBodyIfTooLarge"

\* C15: a body shorter than the limit is returned unchanged, and a body of the
\* limit's length or longer is returned cut, ending with the truncation marker,
\* wherever its line breaks are.
C15_TruncatedEndsWithMarker ==
    Truncated =>
        /\ Len(last.text) < BodySizeLimit => returned = last.text
        /\ Len(last.text) >= BodySizeLimit => EndsWith(returned, TruncationMarker)

\* C16: the text truncateBodyIfTooLarge returns is never longer than the limit.
C16_TruncatedWithinLimit == Truncated => Len(returned) <= BodySizeLimit

\* what holds of truncateBodyIfTooLarge: short bodies pass unchanged, and the
\* result is never more than the marker's length minus one over the limit
TruncatedNearLimit ==
    Truncated =>
        /\ Len(last.text) < BodySizeLimit => returned = last.text
        /\ Len(returned) <= BodySizeLimit + Len(TruncationMarker) - 1

\* a comment that some entry of a baseline equals in category, subcategory,
\* detail and source location (path and offset)
InBaseline(c, entries) ==
    \E k \in DOMAIN entries :
        /\ entries[k].category = c.category
        /\ entries[k].subcategory = c.subcategory
        /\ entries[k].detail = c.detail
        /\ entries[k].sourceLocation.path = c.sourceLocation.path
        /\ entries[k].sourceLocation.offset = c.sourceLocation.offset

\* the entries of the project's baseline file, none when the file is absent
BaselineEntries ==
    IF project[LegacyFile] = <<>> THEN <<>>
    ELSE parseReview(project[LegacyFile][1]).comments

\* C17: the legacy-filtering reviewer returns the wrapped reviewer's comments
\* without exactly those that a baseline entry equals in category, subcategory,
\* detail and source location (path and offset), the others in their order; a
\* comment that differs from every entry in the detail is kept.
C17_LegacyFilterExact ==
    last.op = "inspection" =>
        returned = SelectSeq(last.comments, LAMBDA c : ~InBaseline(c, BaselineEntries))

\* the entries of the baseline file of the reviewer last run, where every
\* reviewer has a file of its own
BaselineEntriesOfReviewer ==
    IF project[legacyFileNameFor(last.reviewer)] = <<>> THEN <<>>
    ELSE parseComments(project[legacyFileNameFor(last.reviewer)][1])

\* what C17 says, of the version with one baseline file per reviewer
PerReviewerFilterExact ==
    (last.op = "inspection" /\ thrown = <<>>) =>
        returned = SelectSeq(last.comments,
                             LAMBDA c : ~InBaseline(c, BaselineEntriesOfReviewer))

\* C18: the baseline file is written only when it is absent. In a run of the
\* baseline autofix on a project that has the baseline file, the file keeps its
\* content and no reviewer is run; and no step changes a file that is there.
C18_BaselineWrittenOnlyWhenAbsent ==
    [][/\ (last'.op = "autofix" /\ project[LegacyFile] # <<>>)
            => (project' = project /\ calls' = <<>>)
       /\ project'[LegacyFile] # project[LegacyFile] => project[LegacyFile] = <<>>]_vars

\* the autofix has run on a project that had its baseline, and has done nothing
C18_Witness ==
    /\ last.op = "autofix"
    /\ project[LegacyFile] # <<>>
    /\ calls = <<>>

\* what C18 says, of the version with one baseline file per reviewer
PerReviewerBaselineWrittenOnlyWhenAbsent ==
    [][last'.op = "autofix" =>
         \A k \in DOMAIN Registrations :
             LET file == legacyFileNameFor(Registrations[k])
             IN project[file] # <<>>
                  => /\ project'[file] = project[file]
                     /\ \A c \in Range(calls') :
                           ~(c.op = "inspection" /\ c.reviewer = Registrations[k])]_vars

\* a body formatter has been applied to last.comments
Formatted == last.op \in {"CategorySortingBodyFormatter", "SubCategorySortingBodyFormatter"}

\* the heading a formatter lists a comment under
HeadingOf(c) ==
    IF last.op = "CategorySortingBodyFormatter" THEN c.category
    ELSE IF c.subcategory # "" THEN c.subcategory ELSE "n/a"

\* the positions in a text at which a piece of text occurs
Occurrences(s, t) == {i \in 1..(Len(s) - Len(t) + 1) : SubSeq(s, i, i + Len(t) - 1) = t}

\* the positions of the headings of a body, and the heading at a position
HeadingPositions(body) == {i \in DOMAIN body : body[i] = "## "}

\* C19: a body formatter gives the empty string for no comments; otherwise the
\* body has one heading for every group of the comments, the headings in
\* alphabetical order, a comment without subcategory grouped under n/a, and
\* every comment is listed exactly once, under the heading of its group.
C19_EveryCommentOnceUnderSortedHeadings ==
    Formatted =>
        LET body == returned
            heads == HeadingPositions(body)
        IN /\ last.comments = <<>> => body = <<>>
           /\ {body[i + 1] : i \in heads} = {HeadingOf(c) : c \in Range(last.comments)}
           /\ \A i, j \in heads : i < j => StrRank(body[i + 1]) < StrRank(body[j + 1])
           /\ \A c \in Range(last.comments) :
                 LET at == Occurrences(body, CommentLine(c, last.push.sha))
                 IN /\ Cardinality(at) = 1
                    /\ \A k \in at :
                          \E i \in heads :
                              /\ i < k
                              /\ body[i + 1] = HeadingOf(c)
                              /\ \A j \in heads : j <= i \/ j > k

\* the lists that have the comments of a list, in any order
Reorderings(l) ==
    {m \in [DOMAIN l -> Range(l)] : \A i, j \in DOMAIN l : i # j => m[i] # m[j]}

\* C20: the body depends on the set of the comments only: every list with the
\* same comments in another order is formatted to the same body.
C20_BodyIndependentOfOrder ==
    /\ last.op = "CategorySortingBodyFormatter"
         => \A m \in Reorderings(last.comments) :
               CategorySortingBodyFormatter(m, last.push.sha) = returned
    /\ last.op = "SubCategorySortingBodyFormatter"
         => \A m \in Reorderings(last.comments) :
               SubCategorySortingBodyFormatter(m, last.push.sha) = returned


\* C23: after a run of the per-category listener on the default branch that
\* completes without error, every category with at least one relevant comment
\* has an issue titled "Code Inspection: <category>" in state open, whatever
\* the state and body of that issue before the run.
C23_RelevantCategoryIssueOpen ==
    (ReconciledLast /\ thrown = <<>>) =>
        \A category \in LastCategories :
            \E i \in Range(issues) :
                i.title = CategoryTitle(category) /\ i.state = "open"

\* the case the change log names: the findings of a category come back with
\* the body its issue already has, the issue having been closed as stale
ClosedWithSameBodyStaysClosed ==
    (ReconciledLast /\ thrown = <<>>) =>
        \A category \in LastCategories :
            \A i \in Before(CategoryTitle(category)) :
                (i.state = "closed" /\ i.body = NewBody(category)
                 /\ Cardinality(Before(CategoryTitle(category))) = 1)
                => issues[i.number].state = "closed"

\* the same case, never reached if this were an invariant
ClosedWithSameBodyNeverSeen ==
    ~(/\ ReconciledLast
      /\ \E category \in LastCategories :
           \E i \in Before(CategoryTitle(category)) :
               i.state = "closed" /\ i.body = NewBody(category))


\* the issues that were stale and already closed when the last run began: they
\* carry the run's tag, their title is of no category of the run
ClosedStaleBefore ==
    {i \in Range(last.pre) :
        /\ i.state = "closed"
        /\ Includes(i.body, LastTag)
        /\ \A category \in LastCategories : i.title # CategoryTitle(category)}

\* C24: the per-category reconciler makes no write (no update, no comment) for
\* a stale tagged issue that is already closed: in a run in which the category
\* of such an issue is still absent, no API write names that issue.
C24_NoWriteForClosedStaleIssue ==
    ReconciledLast =>
        \A i \in ClosedStaleBefore :
            \A k \in DOMAIN calls :
                calls[k].op \in {"update", "comment"} => calls[k].number # i.number

\* a stale closed issue is patched to the state and body it already has
ClosedStaleIssueLeftAsItWas ==
    ReconciledLast =>
        \A i \in ClosedStaleBefore : issues[i.number] = i


\* the issues that, when the last run began, had the title of one of its
\* categories and did not carry its tag
UntaggedWithCategoryTitle ==
    {i \in Range(last.pre) :
        /\ ~Includes(i.body, LastTag)
        /\ \E category \in LastCategories : i.title = CategoryTitle(category)}

\* C25: the per-category reconciler of source S writes only to issues whose
\* body contains the tag of S or that it creates itself: an issue that has
\* the title "Code Inspection: <category>" and does not carry the tag of S is
\* left unchanged in body and state.
C25_UntaggedIssuesLeftUnchanged ==
    ReconciledLast =>
        \A i \in UntaggedWithCategoryTitle :
            /\ issues[i.number].body = i.body
            /\ issues[i.number].state = i.state

\* issues that do not carry the tag and have no category title are not written
OtherUntaggedIssuesLeftUnchanged ==
    ReconciledLast =>
        \A i \in Range(last.pre) :
            (~Includes(i.body, LastTag) /\ i \notin UntaggedWithCategoryTitle)
            => issues[i.number] = i


\* the open issues whose body contains the tag the branch-deletion listener
\* computes for a source
OpenTagged(iss, source) ==
    {i \in Range(iss) : Includes(i.body, createTag(source)) /\ i.state = "open"}

\* C27: after the branch-deletion listener has completed without error for a
\* deleted branch and a configured source, no open issue whose body contains
\* the tag computed for that source and branch remains, also when several open
\* issues carry the tag.
C27_NoOpenTaggedIssueAfterDeletion ==
    (last.op = "branchDeleted" /\ thrown = <<>>) =>
        \A k \in DOMAIN last.sources : OpenTagged(issues, last.sources[k]) = {}

\* with at most one open issue per tag before the deletion none remains open
SingleOpenTaggedIssueClosed ==
    (last.op = "branchDeleted" /\ thrown = <<>>) =>
        \A k \in DOMAIN last.sources :
            Cardinality(OpenTagged(last.pre, last.sources[k])) <= 1
            => OpenTagged(issues, last.sources[k]) = {}


\* a deployment event has been handled to its end
DeploymentLast == last.op = "labelIssuesOnDeployment"

\* the shas of a branch of n pushes in descending timestamp order
History(n) == [i \in 1..(2 * n - 1) |-> Commit(2 * n - i).sha]

\* the position of a sha in a history, 0 when it is not in it
PositionIn(history, sha) ==
    IF \E i \in DOMAIN history : history[i] = sha
    THEN CHOOSE i \in DOMAIN history : history[i] = sha
    ELSE 0

\* the commits deployed by an event: from the current deployment's commit
\* back to the commit before the previous deployment's, to the end of the
\* history if that one is not in it
DeployedCommits(history, sha, previous) ==
    LET from == PositionIn(history, sha)
        to == PositionIn(history, previous)
    IN IF from = 0 THEN <<>>
       ELSE IF to = 0 THEN SubSeq(history, from, Len(history))
       ELSE SubSeq(history, from, to - 1)

\* the names of the existing issues the deployed commits reference
DeployedIssues ==
    {last.graph[k].issue : k \in {j \in DOMAIN last.graph :
        /\ last.graph[j].commit \in Range(DeployedCommits(History(last.event.history),
                                             last.deployment.sha, last.deployment.previous))
        /\ last.graph[j].issue \in DOMAIN last.pre}}

\* C21: the deployment listener labels issues only when the deployments query
\* returns exactly two deployments whose first is the current event's commit;
\* it then collects exactly the commits from the current deployment's commit
\* (inclusive) back to the previous deployment's commit (exclusive), also
\* when the two lie on different pages, and every issue those commits
\* reference gets the label env:<environment> in addition to the labels it
\* has; no other issue is written.
C21_DeployedIssuesLabelled ==
    DeploymentLast =>
        IF Len(last.event.deployments) = 2
           /\ last.event.deployments[1].commit.sha = last.event.deployment.commit.sha
        THEN /\ last.deployment.commits =
                    DeployedCommits(History(last.event.history), last.deployment.sha,
                                    last.deployment.previous)
             /\ \A n \in DOMAIN last.pre :
                    IF n \in DeployedIssues
                    THEN /\ Range(issues[n].labels) =
                                Range(last.pre[n].labels)
                                \cup {EnvLabel(last.event.deployment.environment)}
                         /\ issues[n].body = last.pre[n].body
                         /\ issues[n].state = last.pre[n].state
                    ELSE issues[n] = last.pre[n]
        ELSE calls = <<>> /\ issues = last.pre

\* the current and the previous commit lie on pages with a page between them,
\* and an issue that had a label has been given the environment's label
C21_Witness ==
    /\ DeploymentLast
    /\ Len(last.deployment.pages) >= 3
    /\ last.deployment.sha \in Range(last.deployment.pages[1])
    /\ last.deployment.previous \in Range(last.deployment.pages[3])
    /\ \E n \in DeployedIssues :
          /\ last.pre[n].labels # <<>>
          /\ Len(issues[n].labels) = Len(last.pre[n].labels) + 1

\* C28: the commit-paging loop of the deployment listener terminates for every
\* finite history, whether or not the current or the previous deployment's
\* commit occurs in it, and no page is requested after the one that contains
\* the previous deployment's commit.
C28_PagingTerminates ==
    /\ (deploy.pc = "paging") ~> (deploy.pc = "labelling")
    /\ [](\A k \in DOMAIN deploy.pages :
             deploy.previous \in Range(deploy.pages[k]) => k = Len(deploy.pages))

\* the loop has read every page of a history of three pages and the empty
\* page after them, neither commit being in the history
C28_Witness ==
    /\ deploy.pc = "labelling"
    /\ Len(deploy.pages) = 4
    /\ deploy.pages[4] = <<>>
    /\ deploy.pages[3] # <<>>
    /\ deploy.sha = UnknownSha
    /\ deploy.previous = UnknownSha


\* C26: an update through the issue client never removes a label the remote
\* issue has: after the branch-deletion listener, which closes issues with
\* updateIssue of the issue client, every issue has all the labels it had
\* before, the env:<environment> labels of the deployment listener included.
C26_UpdateKeepsLabels ==
    last.op = "branchDeleted" =>
        \A n \in DOMAIN last.pre :
            Range(last.pre[n].labels) \subseteq Range(issues[n].labels)

\* what the update of the issue client leaves of the labels: the
\* code-inspection label and nothing else
UpdatedIssueHasOneLabel ==
    last.op = "branchDeleted" =>
        \A k \in DOMAIN calls :
            calls[k].op = "update"
            => issues[calls[k].number].labels = <<CodeInspectionIssueLabel>>


\* two locations as C29 has them equal: both absent, or both present with
\* the same path and the same offset
SameLocation(a, b) ==
    \/ (a = NoLocation /\ b = NoLocation)
    \/ (a # NoLocation /\ b # NoLocation /\ a.path = b.path /\ a.offset = b.offset)

\* C29: the legacy filter never fails on comments or baseline entries that
\* lack a sourceLocation: whatever locations are present or absent on the
\* live comments and the baseline entries, filterOutLegacyComments returns a
\* result, and a comment is excluded exactly when a baseline entry has its
\* category, subcategory and detail and a location both absent or both
\* present with the same path and offset.
C29_FilterTotalOnAbsentLocations ==
    last.op = "inspection" =>
        /\ thrown = <<>>
        /\ returned =
             SelectSeq(last.comments, LAMBDA c :
                ~\E k \in DOMAIN BaselineEntriesOfReviewer :
                    /\ SameFinding(BaselineEntriesOfReviewer[k], c)
                    /\ SameLocation(BaselineEntriesOfReviewer[k].sourceLocation,
                                    c.sourceLocation))

\* where the filter returns, it excludes as C29 says
FilterExactWhereItReturns ==
    (last.op = "inspection" /\ thrown = <<>>) => C29_FilterTotalOnAbsentLocations

\* C30: round trip of the baseline. When the reviewer is run on a project whose
\* baseline file holds just the comments the reviewer returns, the filtered
\* result has no comments, for every comment set, comments without
\* subcategory or without sourceLocation included; and the autofix run that
\* follows a clear-baseline command establishes every file the command
\* deleted.
C30_BaselineRoundTrip ==
    /\ [](LET file == project[legacyFileNameFor(last.reviewer)]
          IN (/\ last.op = "inspection"
              /\ file # <<>>
              /\ file[1] = stringifyComments(last.comments))
             => (thrown = <<>> /\ returned = <<>>))
    /\ [][(last.op = "clearBaseline" /\ last'.op = "autofix") =>
            \A k \in DOMAIN Registrations :
                project'[legacyFileNameFor(Registrations[k])] # <<>>]_vars

\* the round trip of comment sets on which the filter returns
RoundTripWhereItReturns ==
    LET file == project[legacyFileNameFor(last.reviewer)]
    IN (/\ last.op = "inspection"
        /\ thrown = <<>>
        /\ file # <<>>
        /\ file[1] = stringifyComments(last.comments))
       => returned = <<>>

\* the clear-baseline command followed by the autofix
ClearedBaselineEstablishedAgain ==
    [][(last.op = "clearBaseline" /\ last'.op = "autofix") =>
         \A k \in DOMAIN Registrations :
             project'[legacyFileNameFor(Registrations[k])] # <<>>]_vars


\* both overlapping invocations have returned
RaceOver ==
    /\ last.op = "concurrent"
    /\ \A r \in DOMAIN runs : runs[r].pc = "done"

\* the categories of the comments of the two invocations
RaceCategories ==
    {last.lists[r][k].category : <<r, k>> \in
        {q \in (DOMAIN last.lists) \X (1..MaxComments) : q[2] \in DOMAIN last.lists[q[1]]}}

\* the last write of the race to an issue: its position in calls, 0 if none
LastWriteTo(n) ==
    IF \E k \in DOMAIN calls : calls[k].op \in {"create", "update"} /\ calls[k].number = n
    THEN CHOOSE k \in DOMAIN calls :
            /\ calls[k].op \in {"create", "update"} /\ calls[k].number = n
            /\ \A j \in (k + 1)..Len(calls) :
                  ~(calls[j].op \in {"create", "update"} /\ calls[j].number = n)
    ELSE 0

\* the issues titled for a category
Titled(iss, category) == {i \in Range(iss) : i.title = CategoryTitle(category)}

\* C22: when two reconciliation runs for pushes to the same default branch
\* overlap, under every interleaving of their search, create and update calls
\* the only effect of the race is last-writer-wins on one issue per category:
\* every issue written has the body of the last write made to it by one of the
\* two runs, and no category that had at most one issue before ends up with
\* two issues.
C22_RaceIsLastWriterWins ==
    RaceOver =>
        /\ \A n \in DOMAIN issues :
              LastWriteTo(n) # 0 =>
                  /\ issues[n].body = calls[LastWriteTo(n)].body
                  /\ \E r \in DOMAIN runs : calls[LastWriteTo(n)] \in Range(runs[r].writes)
        /\ \A category \in RaceCategories :
              Cardinality(Titled(last.pre, category)) <= 1
              => Cardinality(Titled(issues, category)) <= 1

\* the part of C22 that is last-writer-wins on the issues there are
RaceWritesAreLastWriterWins ==
    RaceOver =>
        \A n \in DOMAIN issues :
            LastWriteTo(n) # 0 =>
                /\ issues[n].body = calls[LastWriteTo(n)].body
                /\ \E r \in DOMAIN runs : calls[LastWriteTo(n)] \in Range(runs[r].writes)

\* a category that has an issue when the race begins gets no second one
RaceAddsNoIssueToTitledCategory ==
    RaceOver =>
        \A category \in RaceCategories :
            Cardinality(Titled(last.pre, category)) = 1
            => Cardinality(Titled(issues, category)) = 1

====
